---- MODULE Spec2Model ----
(***************************************************************************)
(* Model of packages/core/src/ChatEngine.ts: the three chat engines        *)
(* SimpleChatEngine, CondenseQuestionChatEngine and ContextChatEngine.     *)
(*                                                                         *)
(* One engine instance is modelled; its class is chosen at construction    *)
(* (kind).  JavaScript arrays are heap objects: chatHistory fields and     *)
(* parameters hold references (array ids) into heap, so that aliasing      *)
(* between the engine's own history and a history passed by the caller is  *)
(* what the code makes it.  An async method runs synchronously up to its   *)
(* first await; every await is a suspension point, resumed by a Resolve    *)
(* or a Reject step of the awaited gateway call.                           *)
(***************************************************************************)
EXTENDS Integers, Sequences, FiniteSets, TLC

\* ---------------------------------------------------------------- bounds
MaxTurns == 2      \* achat calls started in one behaviour
MaxCalls == 2      \* achat calls in flight at once when the caller overlaps them

\* ---------------------------------------------------------------- values
Kinds == {"Simple", "Condense", "Context"}
Messages == {"m1", "m2"}             \* user utterances
Answers == {"a1", "a2"}              \* texts a completion / query engine returns
Rewrites == {"q1"}                   \* standalone questions the predictor may write
Errors == {"ErrNetwork", "ErrRateLimit"}
NotImplemented == "Method not implemented."

Msg(role, content) == [role |-> role, content |-> content]

N1 == [node |-> [text |-> "t1"], score |-> 9]
N2 == [node |-> [text |-> "t2"], score |-> 5]
\* what the retriever may return, best first
Retrievals == {<<>>, <<N1, N2>>}
\* source nodes a query engine's Response may carry
QuerySources == {<<>>, <<N1.node>>}

\* histories handed to the constructor / held by the caller as explicit argument
InitHistories == {<<>>, <<Msg("system", "s0")>>}
CallerHistories == {<<Msg("user", "m1"), Msg("assistant", "a1")>>, <<Msg("system", "s0")>>}

DefaultTemplate == "defaultCondenseQuestionPrompt"
Templates == {DefaultTemplate, "customCondensePrompt"}

OwnedId == 1                         \* the array this.chatHistory starts with
CallerId == 2                        \* the array the caller passes as chatHistory
MaxArrays == MaxCalls + 2             \* the arrays that can be live at once
Slots == 1..MaxCalls

VARIABLES
  kind,          \* class of the engine instance
  heap,          \* array id -> contents (sequence of ChatMessage)
  thisHist,      \* this.chatHistory: an array id
  template,      \* this.condenseMessagePrompt (Condense), "" otherwise
  calls,         \* slot -> activation record of an achat call
  thrown,        \* message of the Error the last operation threw synchronously, "" if none
  serialized,    \* TRUE when the caller runs one operation of the instance at a time
  resetsInRow,   \* reset() calls made since any other operation, counted to 2 (ghost)
  initHistory,   \* the chatHistory given at construction (ghost)
  callerInit,    \* the caller's array as it was first built (ghost)
  turnLog,       \* successful turns since the last reset, in completion order (ghost)
  stats          \* calls started; failed calls and calls given a history since
                 \* the last reset (ghost)

vars == <<kind, heap, thisHist, template, calls, thrown,
          serialized, resetsInRow, initHistory, callerInit, turnLog, stats>>

History == heap[thisHist]            \* a read of this.chatHistory

\* ------------------------------------------------------- pure functions
RECURSIVE Join(_, _)
\* Array.prototype.join
Join(strs, sep) ==
  IF Len(strs) = 0 THEN ""
  ELSE IF Len(strs) = 1 THEN strs[1]
  ELSE strs[1] \o sep \o Join(Tail(strs), sep)

\* Prompt.messagesToHistoryStr: "role: content" per message, newline-joined
MessageLine(msg) == msg.role \o ": " \o msg.content
messagesToHistoryStr(messages) ==
  Join([i \in 1..Len(messages) |-> MessageLine(messages[i])], "\n")

\* Prompt.contextSystemPrompt: the system prompt template rendered with the context
contextSystemPrompt(context) ==
  "Context information is below.\n---\n" \o context \o "\n---"

\* sourceNodesWithScore.map((r) => (r.node as TextNode).text).join("\n\n")
ContextBlock(sourceNodesWithScore) ==
  Join([i \in 1..Len(sourceNodesWithScore) |-> sourceNodesWithScore[i].node.text], "\n\n")

\* the system message of ContextChatEngine.achat
SystemMessage(sourceNodesWithScore) ==
  Msg("system", contextSystemPrompt(ContextBlock(sourceNodesWithScore)))

\* SourceNodes, but in reverse order
SourceNodes_Reversed(sourceNodesWithScore) ==
  [i \in 1..Len(sourceNodesWithScore) |->
     sourceNodesWithScore[Len(sourceNodesWithScore) + 1 - i].node]

\* sourceNodesWithScore.map((r) => r.node)
SourceNodes(sourceNodesWithScore) ==
  [i \in 1..Len(sourceNodesWithScore) |-> sourceNodesWithScore[i].node]

\* AssembleRequest, but with the system message after the history
AssembleRequest_SystemLast(systemMessage, chatHistory) == chatHistory \o <<systemMessage>>

\* [systemMessage, ...chatHistory]
AssembleRequest(systemMessage, chatHistory) == <<systemMessage>> \o chatHistory

\* { content: message, role: "user" }
UserMessage(message) == Msg("user", message)

\* { content: response.response, role: "assistant" }
AssistantMessage(text) == Msg("assistant", text)

\* the ChatResponse.message of a completion gateway answering with text a
GatewayMessage(a) == Msg("assistant", a)

\* Push, but at the front of the array
Push_Unshift(hp, h, msg) == [hp EXCEPT ![h] = <<msg>> \o @]

\* Array.prototype.push on array id h
Push(hp, h, msg) == [hp EXCEPT ![h] = Append(@, msg)]

\* ------------------------------------------------------- activation records
NoEvent == [id |-> 0, type |-> "", tags |-> <<>>]
NoPredict == [prompt |-> "", question |-> "", chat_history |-> ""]
NoRetrieve == [query |-> "", event |-> NoEvent]
NoChat == [messages |-> <<>>, event |-> NoEvent]
\* pc: where the call is suspended; message, chatHistory, parentEvent,
\* sourceNodesWithScore, condensedQuestion: the method's parameters and locals;
\* predictArgs .. chatArgs: the arguments of the gateway calls it made; issued: the
\* gateways it called, in order; responseText, responseNodes: the Response it
\* returned; error: the rejection it ended with.  Ghost: rejection, failedAt: the
\* error a gateway call rejected with and the await it did so at; h0, owned0: the
\* contents of chatHistory and of this.chatHistory when achat was called.
IdleCall ==
  [pc |-> "idle", message |-> "", explicit |-> FALSE, chatHistory |-> 0,
   parentEvent |-> NoEvent, sourceNodesWithScore |-> <<>>, condensedQuestion |-> "",
   predictArgs |-> NoPredict, queryArg |-> "", retrieveArgs |-> NoRetrieve,
   chatArgs |-> NoChat, issued |-> <<>>,
   responseText |-> "", responseNodes |-> <<>>, error |-> "",
   rejection |-> "", failedAt |-> "", h0 |-> <<>>, owned0 |-> <<>>]

Running(c) == calls[c].pc \in {"awaitPredict", "awaitQuery", "awaitRetrieve", "awaitChat"}
InFlight == {c \in Slots : Running(c)}
Free(c) == ~Running(c) /\ \A d \in Slots : d < c => Running(d)

\* the caller's discipline: one operation at a time, or overlapping calls
MayStart == IF serialized THEN InFlight = {} ELSE TRUE

ZeroStats == [started |-> 0, failed |-> 0, explicit |-> 0]

\* chatHistory = chatHistory ?? this.chatHistory
Coalesce(explicit) == IF explicit THEN CallerId ELSE thisHist

NewCall(m, explicit) ==
  [IdleCall EXCEPT !.message = m, !.explicit = explicit,
                   !.chatHistory = Coalesce(explicit),
                   !.h0 = heap[Coalesce(explicit)], !.owned0 = History]

\* ------------------------------------------------------------------ Init
Init ==
  /\ kind \in Kinds
  /\ initHistory \in InitHistories
  /\ callerInit \in CallerHistories
  /\ heap = [a \in 1..MaxArrays |->
               IF a = OwnedId THEN initHistory
               ELSE IF a = CallerId THEN callerInit ELSE <<>>]
  /\ thisHist = OwnedId
  /\ template \in (IF kind = "Condense" THEN Templates ELSE {""})
  /\ calls = [c \in Slots |-> IdleCall]
  /\ thrown = ""
  /\ serialized = TRUE
  /\ resetsInRow = 0
  /\ turnLog = <<>>
  /\ stats = ZeroStats

\* the other construction: the caller lets achat calls and resets overlap
InitOverlap ==
  /\ kind \in Kinds
  /\ initHistory \in {<<>>}
  /\ callerInit \in {<<>>}
  /\ heap = [a \in 1..MaxArrays |-> <<>>]
  /\ thisHist = OwnedId
  /\ template \in (IF kind = "Condense" THEN {DefaultTemplate} ELSE {""})
  /\ calls = [c \in Slots |-> IdleCall]
  /\ thrown = ""
  /\ serialized = FALSE
  /\ resetsInRow = 0
  /\ turnLog = <<>>
  /\ stats = ZeroStats

\* ------------------------------------------------------- bookkeeping (ghost)
Last(s) == s[Len(s)]
Started(explicit) ==
  [stats EXCEPT !.started = @ + 1, !.explicit = @ + (IF explicit THEN 1 ELSE 0)]
WasReset == [stats EXCEPT !.failed = 0, !.explicit = 0]
Failed == [stats EXCEPT !.failed = @ + 1]
Logged(c, a) == Append(turnLog, [m |-> calls[c].message, a |-> a])

\* what no step of achat changes; the step returns normally (nothing is thrown)
Frame ==
  /\ thrown' = ""
  /\ resetsInRow' = 0
  /\ UNCHANGED <<kind, template, serialized, initHistory, callerInit>>

\* Rejected, but calling the gateway again instead of giving up
Rejected_Retry(c, at, e) ==
  /\ calls[c].pc = at
  /\ Len(calls[c].issued) < 3
  /\ calls' = [calls EXCEPT ![c].rejection = e, ![c].failedAt = at,
                            ![c].issued = Append(@, Last(@))]
  /\ stats' = Failed
  /\ UNCHANGED <<heap, thisHist, turnLog>>
  /\ Frame

\* an awaited gateway call rejects: the async method rejects with the same error
Rejected(c, at, e) ==
  /\ calls[c].pc = at
  /\ calls' = [calls EXCEPT ![c].pc = "failed", ![c].error = e,
                            ![c].rejection = e, ![c].failedAt = at]
  /\ stats' = Failed
  /\ UNCHANGED <<heap, thisHist, turnLog>>
  /\ Frame

\* `this.chatHistory = []` in reset().  The arrays still referenced once the field
\* is overwritten are the caller's and those suspended calls hold; any other array
\* is garbage, which nothing can read.  The new empty array is a distinct object
\* from every live one; it may take the place of a collected one.
Live == {CallerId} \cup {calls[c].chatHistory : c \in InFlight}
NewArray == CHOOSE a \in 1..MaxArrays : a \notin Live /\ \A b \in 1..(a - 1) : b \in Live
Collected == [a \in 1..MaxArrays |-> IF a \in Live THEN heap[a] ELSE <<>>]

\* ------------------------------------------------------- SimpleChatEngine
\* SimpleChatRepl, but returning without throwing
SimpleChatRepl_Silent ==
  /\ kind = "Simple"
  /\ thrown' = ""
  /\ resetsInRow' = 0
  /\ UNCHANGED <<kind, heap, thisHist, template, calls, serialized,
                 initHistory, callerInit, turnLog, stats>>

SimpleChatRepl ==
  /\ kind = "Simple"
  /\ thrown' = NotImplemented
  /\ resetsInRow' = 0
  /\ UNCHANGED <<kind, heap, thisHist, template, calls, serialized,
                 initHistory, callerInit, turnLog, stats>>

\* SimpleAchat, but sending the gateway a fresh history holding the new message only
SimpleAchat_FreshRequest(c, m, explicit) ==
  /\ kind = "Simple"
  /\ MayStart /\ Free(c) /\ stats.started < MaxTurns
  /\ LET chatHistory == Coalesce(explicit)
         hp == Push(heap, chatHistory, UserMessage(m))
     IN /\ heap' = hp
        /\ calls' = [calls EXCEPT ![c] =
                       [NewCall(m, explicit) EXCEPT
                          !.pc = "awaitChat",
                          !.chatArgs = [messages |-> <<UserMessage(m)>>, event |-> NoEvent],
                          !.issued = <<"chat">>]]
  /\ stats' = Started(explicit)
  /\ UNCHANGED <<thisHist, turnLog>>
  /\ Frame

\* SimpleAchat, but with `this.chatHistory = chatHistory` before the completion is awaited
SimpleAchat_AssignEarly(c, m, explicit) ==
  /\ kind = "Simple"
  /\ MayStart /\ Free(c) /\ stats.started < MaxTurns
  /\ LET chatHistory == Coalesce(explicit)
         hp == Push(heap, chatHistory, UserMessage(m))
     IN /\ heap' = hp
        /\ thisHist' = chatHistory
        /\ calls' = [calls EXCEPT ![c] =
                       [NewCall(m, explicit) EXCEPT
                          !.pc = "awaitChat",
                          !.chatArgs = [messages |-> hp[chatHistory], event |-> NoEvent],
                          !.issued = <<"chat">>]]
  /\ stats' = Started(explicit)
  /\ UNCHANGED turnLog
  /\ Frame

\* achat up to `await this.llm.achat(chatHistory)`
SimpleAchat(c, m, explicit) ==
  /\ kind = "Simple"
  /\ MayStart /\ Free(c) /\ stats.started < MaxTurns
  /\ LET chatHistory == Coalesce(explicit)
         hp == Push(heap, chatHistory, UserMessage(m))
     IN /\ heap' = hp
        /\ calls' = [calls EXCEPT ![c] =
                       [NewCall(m, explicit) EXCEPT
                          !.pc = "awaitChat",
                          !.chatArgs = [messages |-> hp[chatHistory], event |-> NoEvent],
                          !.issued = <<"chat">>]]
  /\ stats' = Started(explicit)
  /\ UNCHANGED <<thisHist, turnLog>>
  /\ Frame

\* SimpleChatResolve, but without `this.chatHistory = chatHistory`
SimpleChatResolve_NoAssign(c, a) ==
  /\ kind = "Simple"
  /\ calls[c].pc = "awaitChat"
  /\ LET chatHistory == calls[c].chatHistory
         message == GatewayMessage(a)
     IN /\ heap' = Push(heap, chatHistory, message)
        /\ calls' = [calls EXCEPT ![c].pc = "done",
                                  ![c].responseText = message.content,
                                  ![c].responseNodes = <<>>]
  /\ turnLog' = Logged(c, a)
  /\ UNCHANGED <<thisHist, stats>>
  /\ Frame

\* achat after the completion resolved with message text a
SimpleChatResolve(c, a) ==
  /\ kind = "Simple"
  /\ calls[c].pc = "awaitChat"
  /\ LET chatHistory == calls[c].chatHistory
         message == GatewayMessage(a)
     IN /\ heap' = Push(heap, chatHistory, message)
        /\ thisHist' = chatHistory
        /\ calls' = [calls EXCEPT ![c].pc = "done",
                                  ![c].responseText = message.content,
                                  ![c].responseNodes = <<>>]
  /\ turnLog' = Logged(c, a)
  /\ UNCHANGED stats
  /\ Frame

SimpleChatReject(c, e) == kind = "Simple" /\ Rejected(c, "awaitChat", e)

\* SimpleReset, but going back to the history given at construction
SimpleReset_ToInitial ==
  /\ kind = "Simple"
  /\ MayStart
  /\ thisHist' = NewArray
  /\ heap' = [Collected EXCEPT ![NewArray] = initHistory]
  /\ thrown' = ""
  /\ resetsInRow' = IF resetsInRow < 2 THEN resetsInRow + 1 ELSE 2
  /\ stats' = WasReset
  /\ turnLog' = <<>>
  /\ UNCHANGED <<kind, template, calls, serialized, initHistory, callerInit>>

SimpleReset ==
  /\ kind = "Simple"
  /\ MayStart
  /\ thisHist' = NewArray
  /\ heap' = Collected
  /\ thrown' = ""
  /\ resetsInRow' = IF resetsInRow < 2 THEN resetsInRow + 1 ELSE 2
  /\ stats' = WasReset
  /\ turnLog' = <<>>
  /\ UNCHANGED <<kind, template, calls, serialized, initHistory, callerInit>>

\* ------------------------------------------------------- CondenseQuestionChatEngine
CondenseChatRepl ==
  /\ kind = "Condense"
  /\ thrown' = NotImplemented
  /\ resetsInRow' = 0
  /\ UNCHANGED <<kind, heap, thisHist, template, calls, serialized,
                 initHistory, callerInit, turnLog, stats>>

\* the arguments acondenseQuestion hands to llmPredictor.apredict
acondenseQuestion(chatHistory, question) ==
  [prompt |-> DefaultTemplate,
   question |-> question,
   chat_history |-> messagesToHistoryStr(chatHistory)]

\* CondenseAchat, but appending the user message at once, as SimpleChatEngine does
CondenseAchat_PushFirst(c, m, explicit) ==
  /\ kind = "Condense"
  /\ MayStart /\ Free(c) /\ stats.started < MaxTurns
  /\ heap' = Push(heap, Coalesce(explicit), UserMessage(m))
  /\ calls' = [calls EXCEPT ![c] =
                 [NewCall(m, explicit) EXCEPT
                    !.pc = "awaitPredict",
                    !.predictArgs = acondenseQuestion(heap[Coalesce(explicit)], m),
                    !.issued = <<"predict">>]]
  /\ stats' = Started(explicit)
  /\ UNCHANGED <<thisHist, turnLog>>
  /\ Frame

\* achat up to `await this.acondenseQuestion(chatHistory, message)`
CondenseAchat(c, m, explicit) ==
  /\ kind = "Condense"
  /\ MayStart /\ Free(c) /\ stats.started < MaxTurns
  /\ calls' = [calls EXCEPT ![c] =
                 [NewCall(m, explicit) EXCEPT
                    !.pc = "awaitPredict",
                    !.predictArgs = acondenseQuestion(heap[Coalesce(explicit)], m),
                    !.issued = <<"predict">>]]
  /\ stats' = Started(explicit)
  /\ UNCHANGED <<heap, thisHist, turnLog>>
  /\ Frame

\* CondensePredictResolve, but querying with the user's message as it came
CondensePredictResolve_RawQuery(c, q) ==
  /\ kind = "Condense"
  /\ calls[c].pc = "awaitPredict"
  /\ calls' = [calls EXCEPT ![c].pc = "awaitQuery",
                            ![c].condensedQuestion = q,
                            ![c].queryArg = calls[c].message,
                            ![c].issued = Append(@, "query")]
  /\ UNCHANGED <<heap, thisHist, turnLog, stats>>
  /\ Frame

\* the predictor resolved with q; achat up to `await this.queryEngine.aquery(...)`
CondensePredictResolve(c, q) ==
  /\ kind = "Condense"
  /\ calls[c].pc = "awaitPredict"
  /\ calls' = [calls EXCEPT ![c].pc = "awaitQuery",
                            ![c].condensedQuestion = q,
                            ![c].queryArg = q,
                            ![c].issued = Append(@, "query")]
  /\ UNCHANGED <<heap, thisHist, turnLog, stats>>
  /\ Frame

CondensePredictReject(c, e) == kind = "Condense" /\ Rejected(c, "awaitPredict", e)

\* CondenseQueryResolve, but appending the assistant message before the user message
CondenseQueryResolve_SwappedPushes(c, a, src) ==
  /\ kind = "Condense"
  /\ calls[c].pc = "awaitQuery"
  /\ LET chatHistory == calls[c].chatHistory
     IN heap' = Push(Push(heap, chatHistory, AssistantMessage(a)),
                     chatHistory, UserMessage(calls[c].message))
  /\ calls' = [calls EXCEPT ![c].pc = "done",
                            ![c].responseText = a,
                            ![c].responseNodes = src]
  /\ turnLog' = Logged(c, a)
  /\ UNCHANGED <<thisHist, stats>>
  /\ Frame

\* the query engine resolved with Response(a, src); achat to its return
CondenseQueryResolve(c, a, src) ==
  /\ kind = "Condense"
  /\ calls[c].pc = "awaitQuery"
  /\ LET chatHistory == calls[c].chatHistory
     IN heap' = Push(Push(heap, chatHistory, UserMessage(calls[c].message)),
                     chatHistory, AssistantMessage(a))
  /\ calls' = [calls EXCEPT ![c].pc = "done",
                            ![c].responseText = a,
                            ![c].responseNodes = src]
  /\ turnLog' = Logged(c, a)
  /\ UNCHANGED <<thisHist, stats>>
  /\ Frame

CondenseQueryReject(c, e) == kind = "Condense" /\ Rejected(c, "awaitQuery", e)

CondenseReset ==
  /\ kind = "Condense"
  /\ MayStart
  /\ thisHist' = NewArray
  /\ heap' = Collected
  /\ thrown' = ""
  /\ resetsInRow' = IF resetsInRow < 2 THEN resetsInRow + 1 ELSE 2
  /\ stats' = WasReset
  /\ turnLog' = <<>>
  /\ UNCHANGED <<kind, template, calls, serialized, initHistory, callerInit>>

\* ------------------------------------------------------- ContextChatEngine
ContextChatRepl ==
  /\ kind = "Context"
  /\ thrown' = NotImplemented
  /\ resetsInRow' = 0
  /\ UNCHANGED <<kind, heap, thisHist, template, calls, serialized,
                 initHistory, callerInit, turnLog, stats>>

\* { id: uuidv4(), type: "wrapper", tags: ["final"] }: a fresh id per invocation
ParentEvent == [id |-> stats.started + 1, type |-> "wrapper", tags |-> <<"final">>]

\* ContextAchat, but appending the user message before the retriever is awaited
ContextAchat_PushFirst(c, m, explicit) ==
  /\ kind = "Context"
  /\ MayStart /\ Free(c) /\ stats.started < MaxTurns
  /\ heap' = Push(heap, Coalesce(explicit), UserMessage(m))
  /\ calls' = [calls EXCEPT ![c] =
                 [NewCall(m, explicit) EXCEPT
                    !.pc = "awaitRetrieve",
                    !.parentEvent = ParentEvent,
                    !.retrieveArgs = [query |-> m, event |-> ParentEvent],
                    !.issued = <<"retrieve">>]]
  /\ stats' = Started(explicit)
  /\ UNCHANGED <<thisHist, turnLog>>
  /\ Frame

\* achat up to `await this.retriever.aretrieve(message, parentEvent)`
ContextAchat(c, m, explicit) ==
  /\ kind = "Context"
  /\ MayStart /\ Free(c) /\ stats.started < MaxTurns
  /\ calls' = [calls EXCEPT ![c] =
                 [NewCall(m, explicit) EXCEPT
                    !.pc = "awaitRetrieve",
                    !.parentEvent = ParentEvent,
                    !.retrieveArgs = [query |-> m, event |-> ParentEvent],
                    !.issued = <<"retrieve">>]]
  /\ stats' = Started(explicit)
  /\ UNCHANGED <<heap, thisHist, turnLog>>
  /\ Frame

\* ContextRetrieveResolve, but returning an empty Response when nothing was retrieved
ContextRetrieveResolve_ShortCircuit(c, r) ==
  /\ kind = "Context"
  /\ calls[c].pc = "awaitRetrieve"
  /\ LET chatHistory == calls[c].chatHistory
         systemMessage == SystemMessage(r)
         hp == Push(heap, chatHistory, UserMessage(calls[c].message))
     IN IF r = <<>>
        THEN /\ heap' = heap
             /\ calls' = [calls EXCEPT ![c].pc = "done", ![c].sourceNodesWithScore = r]
        ELSE /\ heap' = hp
             /\ calls' = [calls EXCEPT
                            ![c].pc = "awaitChat",
                            ![c].sourceNodesWithScore = r,
                            ![c].chatArgs = [messages |-> AssembleRequest(systemMessage, hp[chatHistory]),
                                             event |-> calls[c].parentEvent],
                            ![c].issued = Append(@, "chat")]
  /\ UNCHANGED <<thisHist, turnLog, stats>>
  /\ Frame

\* ContextRetrieveResolve, but storing the system message in chatHistory
ContextRetrieveResolve_PersistSystem(c, r) ==
  /\ kind = "Context"
  /\ calls[c].pc = "awaitRetrieve"
  /\ LET chatHistory == calls[c].chatHistory
         systemMessage == SystemMessage(r)
         hp == Push(Push(heap, chatHistory, systemMessage),
                    chatHistory, UserMessage(calls[c].message))
     IN /\ heap' = hp
        /\ calls' = [calls EXCEPT
                       ![c].pc = "awaitChat",
                       ![c].sourceNodesWithScore = r,
                       ![c].chatArgs = [messages |-> hp[chatHistory],
                                        event |-> calls[c].parentEvent],
                       ![c].issued = Append(@, "chat")]
  /\ UNCHANGED <<thisHist, turnLog, stats>>
  /\ Frame

\* ContextRetrieveResolve, but building the request from the history as it was when
\* achat was called
ContextRetrieveResolve_SnapshotRequest(c, r) ==
  /\ kind = "Context"
  /\ calls[c].pc = "awaitRetrieve"
  /\ LET chatHistory == calls[c].chatHistory
         systemMessage == SystemMessage(r)
         hp == Push(heap, chatHistory, UserMessage(calls[c].message))
     IN /\ heap' = hp
        /\ calls' = [calls EXCEPT
                       ![c].pc = "awaitChat",
                       ![c].sourceNodesWithScore = r,
                       ![c].chatArgs =
                         [messages |-> AssembleRequest(systemMessage,
                                         Append(calls[c].h0, UserMessage(calls[c].message))),
                          event |-> calls[c].parentEvent],
                       ![c].issued = Append(@, "chat")]
  /\ UNCHANGED <<thisHist, turnLog, stats>>
  /\ Frame

\* the retriever resolved with r; achat up to `await this.chatModel.achat(...)`
ContextRetrieveResolve(c, r) ==
  /\ kind = "Context"
  /\ calls[c].pc = "awaitRetrieve"
  /\ LET chatHistory == calls[c].chatHistory
         systemMessage == SystemMessage(r)
         hp == Push(heap, chatHistory, UserMessage(calls[c].message))
     IN /\ heap' = hp
        /\ calls' = [calls EXCEPT
                       ![c].pc = "awaitChat",
                       ![c].sourceNodesWithScore = r,
                       ![c].chatArgs = [messages |-> AssembleRequest(systemMessage, hp[chatHistory]),
                                        event |-> calls[c].parentEvent],
                       ![c].issued = Append(@, "chat")]
  /\ UNCHANGED <<thisHist, turnLog, stats>>
  /\ Frame

ContextRetrieveReject(c, e) == kind = "Context" /\ Rejected(c, "awaitRetrieve", e)

\* ContextChatResolve, but without `this.chatHistory = chatHistory`
ContextChatResolve_NoAssign(c, a) ==
  /\ kind = "Context"
  /\ calls[c].pc = "awaitChat"
  /\ LET chatHistory == calls[c].chatHistory
         message == GatewayMessage(a)
     IN /\ heap' = Push(heap, chatHistory, message)
        /\ calls' = [calls EXCEPT
                       ![c].pc = "done",
                       ![c].responseText = message.content,
                       ![c].responseNodes = SourceNodes(calls[c].sourceNodesWithScore)]
  /\ turnLog' = Logged(c, a)
  /\ UNCHANGED <<thisHist, stats>>
  /\ Frame

\* the completion resolved with message text a; achat to its return
ContextChatResolve(c, a) ==
  /\ kind = "Context"
  /\ calls[c].pc = "awaitChat"
  /\ LET chatHistory == calls[c].chatHistory
         message == GatewayMessage(a)
     IN /\ heap' = Push(heap, chatHistory, message)
        /\ thisHist' = chatHistory
        /\ calls' = [calls EXCEPT
                       ![c].pc = "done",
                       ![c].responseText = message.content,
                       ![c].responseNodes = SourceNodes(calls[c].sourceNodesWithScore)]
  /\ turnLog' = Logged(c, a)
  /\ UNCHANGED stats
  /\ Frame

ContextChatReject(c, e) == kind = "Context" /\ Rejected(c, "awaitChat", e)

ContextReset ==
  /\ kind = "Context"
  /\ MayStart
  /\ thisHist' = NewArray
  /\ heap' = Collected
  /\ thrown' = ""
  /\ resetsInRow' = IF resetsInRow < 2 THEN resetsInRow + 1 ELSE 2
  /\ stats' = WasReset
  /\ turnLog' = <<>>
  /\ UNCHANGED <<kind, template, calls, serialized, initHistory, callerInit>>

\* ------------------------------------------------------------------ Next
\* ChatEngine.chatRepl of the instance
ChatRepl == SimpleChatRepl \/ CondenseChatRepl \/ ContextChatRepl

\* what the predictor may answer to question m
Predictions(m) == Rewrites \cup {m}

Next ==
  \/ SimpleChatRepl
  \/ \E c \in Slots, m \in Messages, explicit \in BOOLEAN : SimpleAchat(c, m, explicit)
  \/ \E c \in Slots, a \in Answers : SimpleChatResolve(c, a)
  \/ \E c \in Slots, e \in Errors : SimpleChatReject(c, e)
  \/ SimpleReset
  \/ CondenseChatRepl
  \/ \E c \in Slots, m \in Messages, explicit \in BOOLEAN : CondenseAchat(c, m, explicit)
  \/ \E c \in Slots : \E q \in Predictions(calls[c].message) : CondensePredictResolve(c, q)
  \/ \E c \in Slots, e \in Errors : CondensePredictReject(c, e)
  \/ \E c \in Slots, a \in Answers, src \in QuerySources : CondenseQueryResolve(c, a, src)
  \/ \E c \in Slots, e \in Errors : CondenseQueryReject(c, e)
  \/ CondenseReset
  \/ ContextChatRepl
  \/ \E c \in Slots, m \in Messages, explicit \in BOOLEAN : ContextAchat(c, m, explicit)
  \/ \E c \in Slots, r \in Retrievals : ContextRetrieveResolve(c, r)
  \/ \E c \in Slots, e \in Errors : ContextRetrieveReject(c, e)
  \/ \E c \in Slots, a \in Answers : ContextChatResolve(c, a)
  \/ \E c \in Slots, e \in Errors : ContextChatReject(c, e)
  \/ ContextReset

\* the caller serializes the operations of the instance
Spec == Init /\ [][Next]_vars

\* The overlapping caller: its k-th achat call carries the k-th message, and every
\* gateway answers a request with one text and fails in one way, so that each
\* message and each reply names its turn.
NthMessage == "m" \o ToString(stats.started + 1)
ReplyTo(c) == "re " \o calls[c].message
OneError == "ErrNetwork"

NextOverlap ==
  \/ SimpleChatRepl
  \/ \E c \in Slots, explicit \in BOOLEAN : SimpleAchat(c, NthMessage, explicit)
  \/ \E c \in Slots : SimpleChatResolve(c, ReplyTo(c))
  \/ \E c \in Slots : SimpleChatReject(c, OneError)
  \/ SimpleReset
  \/ CondenseChatRepl
  \/ \E c \in Slots, explicit \in BOOLEAN : CondenseAchat(c, NthMessage, explicit)
  \/ \E c \in Slots, q \in Rewrites : CondensePredictResolve(c, q)
  \/ \E c \in Slots : CondensePredictReject(c, OneError)
  \/ \E c \in Slots : CondenseQueryResolve(c, ReplyTo(c), <<N1.node>>)
  \/ \E c \in Slots : CondenseQueryReject(c, OneError)
  \/ CondenseReset
  \/ ContextChatRepl
  \/ \E c \in Slots, explicit \in BOOLEAN : ContextAchat(c, NthMessage, explicit)
  \/ \E c \in Slots : ContextRetrieveResolve(c, <<N1, N2>>)
  \/ \E c \in Slots : ContextRetrieveReject(c, OneError)
  \/ \E c \in Slots : ContextChatResolve(c, ReplyTo(c))
  \/ \E c \in Slots : ContextChatReject(c, OneError)
  \/ ContextReset

\* the caller overlaps achat calls and resets
SpecOverlap == InitOverlap /\ [][NextOverlap]_vars


\* =================================================================== claims
LastTwo(s) == SubSeq(s, Len(s) - 1, Len(s))
\* slot c completes its achat successfully in this step
Completes(c) == calls[c].pc # "done" /\ calls'[c].pc = "done"
\* no failed call and no call with a history argument since construction / the last reset
Clean == stats.failed = 0 /\ stats.explicit = 0

\* C1: for each engine and every successful achat(m), with or without the history
\* argument, the last two entries of the owned History after the call are the user
\* message m followed by the assistant message holding the gateway's answer.
C1_LastTwoEntries ==
  [][\A c \in Slots :
       Completes(c) =>
         /\ Len(History') >= 2
         /\ LastTwo(History') = <<Msg("user", calls'[c].message),
                                  Msg("assistant", Last(turnLog').a)>>]_vars

\* C1: the same statement for every call but a CondenseQuestionChatEngine call
\* given a history, where it holds.
C1_ExceptCondenseWithHistory ==
  [][\A c \in Slots :
       (Completes(c) /\ ~(kind = "Condense" /\ calls[c].explicit)) =>
         /\ Len(History') >= 2
         /\ LastTwo(History') = <<Msg("user", calls'[c].message),
                                  Msg("assistant", Last(turnLog').a)>>]_vars

\* C2: SimpleChatEngine, from an empty History: the n-th of n sequential successful
\* achat calls without history argument sends the completion gateway 2n-1 messages,
\* the earlier turns in order as user/assistant pairs and then the new user message.
C2_NthRequest ==
  \A c \in Slots :
    (kind = "Simple" /\ initHistory = <<>> /\ Clean /\ calls[c].pc = "awaitChat") =>
      LET n == Len(turnLog) + 1
          sent == calls[c].chatArgs.messages
      IN /\ Len(sent) = 2 * n - 1
         /\ \A i \in 1..(n - 1) :
              /\ sent[2 * i - 1] = Msg("user", turnLog[i].m)
              /\ sent[2 * i] = Msg("assistant", turnLog[i].a)
         /\ sent[2 * n - 1] = Msg("user", calls[c].message)

\* the second call of such a sequence is suspended on its 3-message request
C2_Witness ==
  \E c \in Slots :
    /\ kind = "Simple" /\ initHistory = <<>> /\ Clean /\ calls[c].pc = "awaitChat"
    /\ Len(turnLog) = 1
    /\ Len(calls[c].chatArgs.messages) = 3

\* what the engine and its caller can observe
Observable == <<kind, History, template, calls, heap[CallerId], thrown>>

\* C3: a reset() leaves the owned History empty, whatever calls came before it,
\* and a second reset() right after the first changes nothing more.
C3_ResetClearsIdempotent ==
  [][/\ (resetsInRow' >= 1 => History' = <<>>)
     /\ ((resetsInRow = 1 /\ resetsInRow' = 2) => Observable' = Observable)]_vars

\* two resets in a row, after a successful turn
C3_Witness ==
  /\ resetsInRow = 2
  /\ History = <<>>
  /\ \E c \in Slots : calls[c].pc = "done"

\* C4: CondenseQuestionChatEngine, achat(m) on an empty History: the question handed
\* to the query engine is m itself, whatever the predictor returns.
C4_PassThrough ==
  \A c \in Slots :
    (kind = "Condense" /\ calls[c].h0 = <<>> /\ Len(calls[c].issued) = 2) =>
      calls[c].queryArg = calls[c].message

\* C5: ContextChatEngine, every successful achat: Response.text is the content of
\* the gateway's message and Response.sourceNodes are the nodes of the retrieved
\* items, in the retriever's order and number.
C5_ResponseFromGateways ==
  [][\A c \in Slots :
       (kind = "Context" /\ Completes(c)) =>
         LET r == calls[c].sourceNodesWithScore
         IN /\ calls'[c].responseText = Last(turnLog').a
            /\ Len(calls'[c].responseNodes) = Len(r)
            /\ \A i \in 1..Len(r) : calls'[c].responseNodes[i] = r[i].node]_vars

\* a call returned two source nodes, best first
C5_Witness ==
  \E c \in Slots :
    /\ kind = "Context" /\ calls[c].pc = "done"
    /\ calls[c].sourceNodesWithScore = <<N1, N2>>
    /\ calls[c].responseNodes = <<N1.node, N2.node>>
    /\ calls[c].responseText \in Answers

\* C6: ContextChatEngine, the retriever returns nothing: the turn goes on.  The
\* completion gateway is called once, with the system message of an empty context
\* followed by the history; the user and assistant messages are appended to History
\* and the Response has no source nodes.
C6_EmptyRetrieval ==
  [][\A c \in Slots :
       /\ (/\ kind = "Context"
           /\ calls[c].pc = "awaitRetrieve"
           /\ calls'[c].pc \notin {"awaitRetrieve", "failed"}
           /\ calls'[c].sourceNodesWithScore = <<>>) =>
            /\ calls'[c].pc = "awaitChat"
            /\ calls'[c].issued = <<"retrieve", "chat">>
            /\ calls'[c].chatArgs.messages =
                 <<Msg("system", contextSystemPrompt(""))>>
                   \o calls[c].h0 \o <<Msg("user", calls[c].message)>>
       /\ (kind = "Context" /\ Completes(c) /\ calls'[c].sourceNodesWithScore = <<>>) =>
            /\ calls[c].pc = "awaitChat"
            /\ calls'[c].issued = <<"retrieve", "chat">>
            /\ History' = calls[c].h0 \o <<Msg("user", calls[c].message),
                                           Msg("assistant", Last(turnLog').a)>>
            /\ calls'[c].responseNodes = <<>>]_vars

\* a turn completed although nothing was retrieved
C6_Witness ==
  \E c \in Slots :
    /\ kind = "Context" /\ calls[c].pc = "done"
    /\ calls[c].sourceNodesWithScore = <<>>
    /\ calls[c].issued = <<"retrieve", "chat">>
    /\ calls[c].chatArgs.messages[1] = Msg("system", contextSystemPrompt(""))
    /\ Len(History) >= 2

NoSystem(h) == \A i \in 1..Len(h) : h[i].role # "system"

\* C7: as stated.  ContextChatEngine, the History given at construction holds no
\* system message (the gateway answers with assistant messages): no reachable
\* state has a system message in the owned History.
C7_NoSystemInHistory ==
  (kind = "Context" /\ NoSystem(initHistory)) => NoSystem(History)

\* C7: as amended.  The same, provided also that no history passed to achat holds a
\* system message.
C7_NoSystemUnlessSupplied ==
  (kind = "Context" /\ NoSystem(initHistory) /\ NoSystem(callerInit)) =>
    NoSystem(History) /\ NoSystem(heap[CallerId])

\* a turn that sent a composed system message has completed
C7_Witness ==
  \E c \in Slots :
    /\ kind = "Context" /\ NoSystem(initHistory) /\ NoSystem(callerInit)
    /\ calls[c].pc = "done"
    /\ calls[c].chatArgs.messages[1] = SystemMessage(<<N1, N2>>)
    /\ thisHist = calls[c].chatHistory
    /\ Len(History) >= 2

\* C8: SimpleChatEngine, after a successful achat(m, h): the owned History is h
\* extended with the turn's user and assistant messages, and the next achat without
\* history argument sends the gateway that sequence plus the new user message.
C8_SuppliedHistoryAdopted ==
  [][\A c \in Slots :
       /\ (kind = "Simple" /\ Completes(c) /\ calls[c].explicit) =>
            History' = calls[c].h0 \o <<Msg("user", calls[c].message),
                                        Msg("assistant", Last(turnLog').a)>>
       /\ (/\ kind = "Simple"
           /\ calls[c].pc = "done" /\ calls[c].explicit /\ stats.explicit >= 1
           /\ calls'[c].pc = "awaitChat" /\ ~calls'[c].explicit) =>
            calls'[c].chatArgs.messages =
              calls[c].h0 \o <<Msg("user", calls[c].message),
                               Msg("assistant", calls[c].responseText),
                               Msg("user", calls'[c].message)>>]_vars

\* the call after an achat(m, h) is suspended on a request that extends h
C8_Witness ==
  \E c \in Slots :
    /\ kind = "Simple" /\ calls[c].pc = "awaitChat" /\ ~calls[c].explicit
    /\ thisHist = CallerId
    /\ Len(turnLog) = 1
    /\ calls[c].chatArgs.messages =
         callerInit \o <<Msg("user", turnLog[1].m), Msg("assistant", turnLog[1].a),
                         Msg("user", calls[c].message)>>

\* C9: chatRepl() can be called in every state, and however it runs it throws its
\* error, issues no gateway call and leaves the owned History unchanged.
C9_ChatReplThrows ==
  /\ ENABLED ChatRepl
  /\ ~ENABLED (ChatRepl /\ ~(/\ thrown' = NotImplemented
                             /\ UNCHANGED <<heap, thisHist, calls>>))

\* chatRepl threw after a completed turn
C9_Witness ==
  /\ thrown = NotImplemented
  /\ Len(History) >= 2
  /\ \E c \in Slots : calls[c].pc = "done"

\* the gateway an await waits for
GatewayOf(at) ==
  CASE at = "awaitPredict" -> "predict"
    [] at = "awaitQuery" -> "query"
    [] at = "awaitRetrieve" -> "retrieve"
    [] at = "awaitChat" -> "chat"

\* C10: when a gateway call of a turn fails, achat fails with the same failure, no
\* later gateway call of the turn is issued, and no gateway is called twice in a turn.
C10_FailurePropagates ==
  \A c \in Slots :
    /\ \A i, j \in 1..Len(calls[c].issued) :
         i # j => calls[c].issued[i] # calls[c].issued[j]
    /\ calls[c].rejection # "" =>
         /\ calls[c].pc = "failed"
         /\ calls[c].error = calls[c].rejection
         /\ Last(calls[c].issued) = GatewayOf(calls[c].failedAt)

\* the query engine failed after the predictor had answered
C10_Witness ==
  \E c \in Slots :
    /\ calls[c].pc = "failed" /\ calls[c].failedAt = "awaitQuery"
    /\ calls[c].error = "ErrRateLimit"
    /\ calls[c].issued = <<"predict", "query">>

\* slot c's achat fails in this step
Fails(c) == calls[c].pc # "failed" /\ calls'[c].pc = "failed"

\* C11: when a turn fails, the history it works on holds no assistant message of the
\* turn: it is what it was when achat was called, plus the turn's user message if
\* it was the completion gateway of SimpleChatEngine or ContextChatEngine that
\* failed, and nothing more if the retriever, the predictor or the query engine
\* failed; the failing step itself changes no history and not the owned one.
C11_FailedTurn ==
  [][\A c \in Slots :
       Fails(c) =>
         LET h == calls[c].chatHistory
             before == calls[c].h0
         IN /\ heap' = heap /\ thisHist' = thisHist
            /\ IF kind \in {"Simple", "Context"} /\ calls[c].pc = "awaitChat"
               THEN heap'[h] = before \o <<Msg("user", calls[c].message)>>
               ELSE /\ calls[c].pc \in {"awaitRetrieve", "awaitPredict", "awaitQuery"}
                    /\ heap'[h] = before
            /\ ~calls[c].explicit => h = thisHist' /\ before = calls[c].owned0]_vars

\* the completion gateway of a ContextChatEngine turn failed: the user message stays
C11_Witness ==
  \E c \in Slots :
    /\ kind = "Context" /\ calls[c].pc = "failed" /\ calls[c].failedAt = "awaitChat"
    /\ ~calls[c].explicit
    /\ calls[c].owned0 # <<>>
    /\ History = calls[c].owned0 \o <<Msg("user", calls[c].message)>>

\* C12: CondenseQuestionChatEngine, every turn: while the predictor is awaited it is
\* the only gateway called and no question has gone to the query engine; once the
\* query engine is called, the gateways called are the predictor and then the query
\* engine, once each, and the question sent is the string the predictor returned.
C12_CondenseThenQuery ==
  \A c \in Slots :
    kind = "Condense" =>
      /\ calls[c].pc = "idle" => calls[c].issued = <<>>
      /\ calls[c].pc = "awaitPredict" =>
           calls[c].issued = <<"predict">> /\ calls[c].queryArg = ""
      /\ calls[c].pc \in {"awaitQuery", "done"} =>
           /\ calls[c].issued = <<"predict", "query">>
           /\ calls[c].queryArg = calls[c].condensedQuestion
      /\ calls[c].pc = "failed" =>
           \/ /\ calls[c].failedAt = "awaitPredict"
              /\ calls[c].issued = <<"predict">> /\ calls[c].queryArg = ""
           \/ /\ calls[c].failedAt = "awaitQuery"
              /\ calls[c].issued = <<"predict", "query">>
              /\ calls[c].queryArg = calls[c].condensedQuestion

\* a turn completed whose question was rewritten by the predictor
C12_Witness ==
  \E c \in Slots :
    /\ kind = "Condense" /\ calls[c].pc = "done"
    /\ calls[c].message = "m1"
    /\ calls[c].condensedQuestion = "q1" /\ calls[c].queryArg = "q1"
    /\ calls[c].issued = <<"predict", "query">>

\* C13: ContextChatEngine, every turn: the retriever is called first, with the
\* user's message as it came, and while it is awaited nothing has gone to the
\* completion gateway; the completion request is the system message, then the
\* history as it was at the call, then the new user message (the history's length
\* plus 2), and it carries the event the retriever got.
C13_RetrieveThenComplete ==
  \A c \in Slots :
    (kind = "Context" /\ calls[c].pc # "idle") =>
      /\ calls[c].issued[1] = "retrieve"
      /\ calls[c].retrieveArgs = [query |-> calls[c].message, event |-> calls[c].parentEvent]
      /\ (calls[c].pc = "awaitRetrieve" \/ calls[c].failedAt = "awaitRetrieve") =>
           calls[c].issued = <<"retrieve">> /\ calls[c].chatArgs = NoChat
      /\ (calls[c].pc \in {"awaitChat", "done"} \/ calls[c].failedAt = "awaitChat") =>
           LET sent == calls[c].chatArgs.messages
           IN /\ calls[c].issued = <<"retrieve", "chat">>
              /\ sent = <<SystemMessage(calls[c].sourceNodesWithScore)>>
                          \o calls[c].h0 \o <<Msg("user", calls[c].message)>>
              /\ Len(sent) = Len(calls[c].h0) + 2
              /\ Last(sent) = Msg("user", calls[c].message)
              /\ calls[c].chatArgs.event = calls[c].parentEvent

\* a turn on a non-empty history is suspended on its completion request
C13_Witness ==
  \E c \in Slots :
    /\ kind = "Context" /\ calls[c].pc = "awaitChat"
    /\ Len(calls[c].h0) >= 2
    /\ calls[c].sourceNodesWithScore = <<N1, N2>>
    /\ Len(calls[c].chatArgs.messages) = Len(calls[c].h0) + 2
    /\ History = calls[c].h0 \o <<Msg("user", calls[c].message)>>

IsPrefix(s, t) == Len(s) <= Len(t) /\ SubSeq(t, 1, Len(s)) = s
\* the history part of the completion request of slot c
SentHistory(c) ==
  IF kind = "Context" THEN Tail(calls[c].chatArgs.messages) ELSE calls[c].chatArgs.messages

\* C14: SimpleChatEngine and ContextChatEngine, overlapping calls: whenever two calls
\* are suspended on the completion gateway over the same history, the request of
\* the one that got there later holds the whole request history of the earlier
\* one, so the earlier call's unanswered user message, and ends with its own.
C14_LaterRequestHoldsEarlier ==
  \A c, d \in Slots :
    (/\ kind \in {"Simple", "Context"} /\ c # d
     /\ calls[c].pc = "awaitChat" /\ calls[d].pc = "awaitChat"
     /\ calls[c].chatHistory = calls[d].chatHistory
     /\ Len(SentHistory(c)) <= Len(SentHistory(d))) =>
       /\ Len(SentHistory(c)) < Len(SentHistory(d))
       /\ IsPrefix(SentHistory(c), SentHistory(d))
       /\ SentHistory(d)[Len(SentHistory(c))] = Msg("user", calls[c].message)
       /\ Last(SentHistory(d)) = Msg("user", calls[d].message)
       /\ IsPrefix(SentHistory(d), heap[calls[d].chatHistory])

\* two overlapping calls have completed: History is user, user, assistant,
\* assistant and the later request held the earlier call's unanswered message
C14_Witness ==
  \E c, d \in Slots :
    /\ kind \in {"Simple", "Context"} /\ c # d
    /\ calls[c].pc = "done" /\ calls[d].pc = "done"
    /\ Len(History) = 4
    /\ SubSeq(History, 1, 2) = <<Msg("user", calls[c].message), Msg("user", calls[d].message)>>
    /\ History[3].role = "assistant" /\ History[4].role = "assistant"
    /\ SentHistory(c) = <<Msg("user", calls[c].message)>>
    /\ SentHistory(d) = <<Msg("user", calls[c].message), Msg("user", calls[d].message)>>

\* slot c's achat returns or fails in this step
Ends(c) == Completes(c) \/ Fails(c)

\* C15: as stated.  For every achat call, with or without the history argument, the
\* owned History at the call is a prefix of the owned History when the call ends.
C15_OwnedOnlyGrows ==
  [][\A c \in Slots : Ends(c) => IsPrefix(calls[c].owned0, History')]_vars

\* C15: as amended.  No step but reset() takes an entry out of an array or moves
\* one: every array is a prefix of what it is after the step, and so is the owned
\* History while this.chatHistory keeps its array; a call that works on the owned
\* array, fails, or is a CondenseQuestionChatEngine call ends with the owned History
\* at the call as a prefix of the owned History; a successful SimpleChatEngine or
\* ContextChatEngine call given another array makes that array, extended by the
\* turn's two messages, the owned History.
C15_GrowsUnlessReplaced ==
  [][/\ resetsInRow' = 0 =>
          /\ \A a \in 1..MaxArrays : IsPrefix(heap[a], heap'[a])
          /\ thisHist' = thisHist => IsPrefix(History, History')
     /\ \A c \in Slots :
          /\ (/\ Ends(c)
              /\ \/ calls[c].chatHistory = thisHist
                 \/ Fails(c)
                 \/ kind = "Condense") => IsPrefix(calls[c].owned0, History')
          /\ (/\ Completes(c) /\ kind \in {"Simple", "Context"}
              /\ calls[c].chatHistory # thisHist) =>
                /\ thisHist' = calls[c].chatHistory
                /\ History' = calls[c].h0 \o <<Msg("user", calls[c].message),
                                               Msg("assistant", Last(turnLog').a)>>]_vars

\* a call given the caller's array has replaced a non-empty owned History
C15_Witness ==
  \E c \in Slots :
    /\ kind \in {"Simple", "Context"} /\ calls[c].pc = "done" /\ calls[c].explicit
    /\ calls[c].owned0 # <<>>
    /\ ~IsPrefix(calls[c].owned0, History)
    /\ History = calls[c].h0 \o <<Msg("user", calls[c].message),
                                  Msg("assistant", calls[c].responseText)>>

\* the positions of h holding a user message that no assistant message follows
Unanswered(h) ==
  {i \in 1..Len(h) :
     h[i].role = "user" /\ (i = Len(h) \/ h[i + 1].role # "assistant")}

\* C16: serialized calls.  A turn that returns leaves its history as it was at the
\* call plus its user message and then one assistant message, the gateway's; a
\* turn that fails leaves it with at most its user message added; no other step
\* adds an assistant message.  So, in every state between calls of an engine whose
\* History came to it without assistant messages, every assistant message in
\* History stands right after a user message and the user messages without a reply
\* are no more than the failed turns.
C16_OneReplyAfterItsMessage ==
  /\ [][\A c \in Slots :
          LET h == calls[c].chatHistory
              user == Msg("user", calls[c].message)
          IN /\ Completes(c) =>
                  heap'[h] = calls[c].h0 \o <<user, Msg("assistant", Last(turnLog').a)>>
             /\ Fails(c) => heap'[h] \in {calls[c].h0, calls[c].h0 \o <<user>>}
             /\ (\A d \in Slots : ~Completes(d)) =>
                  \A a \in 1..MaxArrays :
                    \A i \in (Len(heap[a]) + 1)..Len(heap'[a]) :
                      heap'[a][i].role # "assistant"]_vars
  /\ []((stats.explicit = 0 /\ thisHist # CallerId /\ InFlight = {}) =>
          /\ \A i \in 1..Len(History) :
               History[i].role = "assistant" => i > 1 /\ History[i - 1].role = "user"
          /\ Cardinality(Unanswered(History)) <= stats.failed)

\* after a failed and a successful turn: user, user, assistant
C16_Witness ==
  \E c \in Slots :
    /\ kind = "Simple" /\ InFlight = {} /\ stats.explicit = 0 /\ stats.failed = 1
    /\ calls[c].pc = "done"
    /\ Len(History) = 3
    /\ History[1].role = "user" /\ Unanswered(History) = {1}
    /\ LastTwo(History) = <<Msg("user", calls[c].message),
                            Msg("assistant", calls[c].responseText)>>

\* C17: CondenseQuestionChatEngine: the template handed to the predictor in every
\* condensation call is the one the engine was constructed with (the default one
\* when none was given).
C17_ConfiguredTemplateUsed ==
  \A c \in Slots :
    (kind = "Condense" /\ calls[c].issued # <<>>) =>
      calls[c].predictArgs.prompt = template

\* C17: what holds instead: the predictor gets the default template in every call,
\* whatever the engine was constructed with.
C17_DefaultTemplateAlways ==
  \A c \in Slots :
    (kind = "Condense" /\ calls[c].issued # <<>>) =>
      calls[c].predictArgs.prompt = DefaultTemplate

\* h is made of user/assistant pairs, each the message and the reply of one turn
PairedWithTurns(h) ==
  /\ Len(h) % 2 = 0
  /\ \A i \in 1..Len(h) :
       i % 2 = 1 =>
         /\ h[i].role = "user"
         /\ h[i + 1] = Msg("assistant", "re " \o h[i].content)

\* C18: CondenseQuestionChatEngine, calls overlapping at will, from empty histories:
\* a history changes (reset aside) only in the step that ends a turn, after the
\* predictor and the query engine both returned, and then by that turn's user and
\* assistant message at once; so every history, the owned one included, is at all
\* times a sequence of user/assistant pairs, each pair made by one turn.
C18_PairsTogether ==
  /\ [][(kind = "Condense" /\ heap' # heap /\ resetsInRow' = 0) =>
          \E c \in Slots :
            /\ Completes(c)
            /\ calls[c].pc = "awaitQuery" /\ calls[c].issued = <<"predict", "query">>
            /\ heap' = [heap EXCEPT ![calls[c].chatHistory] =
                          @ \o <<Msg("user", calls[c].message),
                                 Msg("assistant", Last(turnLog').a)>>]]_vars
  /\ [](kind = "Condense" =>
          /\ PairedWithTurns(History)
          /\ \A a \in 1..MaxArrays : PairedWithTurns(heap[a]))

\* two overlapping turns have completed, the later-started one first
C18_Witness ==
  /\ kind = "Condense"
  /\ \A c \in Slots : calls[c].pc = "done" /\ ~calls[c].explicit
  /\ History = <<Msg("user", "m2"), Msg("assistant", "re m2"),
                 Msg("user", "m1"), Msg("assistant", "re m1")>>

\* reset() was called while slot c's achat(m) was suspended, and no turn has
\* completed since: this.chatHistory is no longer the array the call works on
ResetDuring(c) ==
  /\ Running(c) /\ ~calls[c].explicit
  /\ thisHist # calls[c].chatHistory
  /\ turnLog = <<>>

\* C19: reset() during a suspended achat(m).  When the call of a SimpleChatEngine or
\* ContextChatEngine then completes, this.chatHistory is again the array from before
\* the reset: the History the call started on, the turn's user message with
\* whatever other calls appended to that array meanwhile, and the assistant message.  When the call of a
\* CondenseQuestionChatEngine completes, the owned History stays the empty one the
\* reset made and the turn's two messages go onto the array from before the reset.
C19_ResetDoesNotLast ==
  [][\A c \in Slots :
       (ResetDuring(c) /\ Completes(c)) =>
         LET h == calls[c].chatHistory
             user == Msg("user", calls[c].message)
             assistant == Msg("assistant", Last(turnLog').a)
         IN /\ IsPrefix(calls[c].owned0, heap[h])
            /\ IF kind = "Condense"
               THEN /\ thisHist' = thisHist /\ History = <<>> /\ History' = <<>>
                    /\ heap'[h] = heap[h] \o <<user, assistant>>
               ELSE /\ thisHist' = h
                    /\ History' = heap[h] \o <<assistant>>
                    /\ \E i \in (Len(calls[c].owned0) + 1)..Len(heap[h]) : heap[h][i] = user
                    /\ Len(heap[h]) = Len(calls[c].owned0) + 1 =>
                         History' = calls[c].owned0 \o <<user, assistant>>]_vars

\* the second turn of a ContextChatEngine has completed after a reset() made during
\* it: the first turn is back in the owned History
C19_Witness ==
  \E c \in Slots :
    /\ kind = "Context" /\ calls[c].pc = "done" /\ ~calls[c].explicit
    /\ calls[c].owned0 = <<Msg("user", "m1"), Msg("assistant", "re m1")>>
    /\ Len(turnLog) = 1 /\ stats.explicit = 0
    /\ thisHist = calls[c].chatHistory
    /\ History = calls[c].owned0 \o <<Msg("user", "m2"), Msg("assistant", "re m2")>>

\* C20: SimpleChatEngine and ContextChatEngine, achat(m, h) with h another array
\* than the owned one: no step of the call before its return touches
\* this.chatHistory or the owned array; so when the completion gateway fails,
\* this.chatHistory is still the array it was, holding what it held at the call,
\* and h is what it was at the call with the user message m appended.
C20_FailedTurnKeepsOwned ==
  [][\A c \in Slots :
       (/\ kind \in {"Simple", "Context"}
        /\ calls'[c] # calls[c] /\ calls'[c].explicit /\ thisHist # CallerId) =>
          /\ calls'[c].chatHistory = CallerId
          /\ calls'[c].pc # "done" =>
               /\ thisHist' = thisHist
               /\ History' = calls'[c].owned0
          /\ (Fails(c) /\ calls[c].pc = "awaitChat") =>
               heap'[CallerId] = calls[c].h0 \o <<Msg("user", calls[c].message)>>]_vars

\* such a call of a SimpleChatEngine with a non-empty History has failed
C20_Witness ==
  \E c \in Slots :
    /\ kind = "Simple" /\ calls[c].pc = "failed" /\ calls[c].failedAt = "awaitChat"
    /\ calls[c].explicit /\ thisHist # CallerId
    /\ History = initHistory /\ initHistory # <<>>
    /\ heap[CallerId] = callerInit \o <<Msg("user", calls[c].message)>>
    /\ History # heap[CallerId]

====
